---- MODULE Spec2Model ----
(***************************************************************************)
(* Model of disnake-ext-invitetracker: the in-memory invite cache          *)
(* (util/cache.py, InviteCache), the reconciliation and event handlers of  *)
(* util/database.py (Database) and the tables of                           *)
(* database/models/tracker.py that the handlers read and write.            *)
(*                                                                         *)
(* A handler that awaits the host platform takes the answer of that call   *)
(* as an input of its action (a list of invites, or Failed when the call   *)
(* raises HTTPException/Forbidden).  A Python exception that leaves a      *)
(* handler ends the handler there: what it wrote before the exception      *)
(* stays written, and the name of the exception is recorded in ev.exc.     *)
(***************************************************************************)
EXTENDS Integers, Sequences, FiniteSets, TLC

\* ------------------------------------------------------------ inputs ----

Guilds == {1, 2}
Codes == {"A", "B"}
Members == {1, 2}

\* Highest use count an invite of the model shows.
MaxUses == 1

\* Most rows the guild_invite table of the model holds.
MaxRows == 2

\* Python's None where the other values are strings; an Optional[T] whose
\* values are not strings is the sequence <<>> (None) or <<v>>.
None == "None"
NoneOf == <<>>
Some(v) == <<v>>

\* invite.inviter of the invites of the model: "A" was created by user u7,
\* "B" has no inviter (invite.inviter is None).
InviterOf(code) == IF code = "A" THEN "u7" ELSE None

\* A disnake.Invite as far as the package reads it: code, uses, inviter.
Invite(code, uses) == [code |-> code, uses |-> uses, inviter |-> InviterOf(code)]

Invites == {Invite(c, u) : c \in Codes, u \in 0..MaxUses}

\* What guild.invites() can return: the invites of a guild in the order of
\* the platform, no code twice.
LiveLists ==
    {<<>>} \cup {<<i>> : i \in Invites}
           \cup {l \in {<<i, j>> : i \in Invites, j \in Invites} : l[1].code # l[2].code}

\* The outcomes of awaiting guild.invites(): the list, or the call raised
\* errors.HTTPException / errors.Forbidden.
Fetched(invites) == [ok |-> TRUE, invites |-> invites]
Failed == [ok |-> FALSE, invites |-> <<>>]
FetchOutcomes == {Fetched(l) : l \in LiveLists} \cup {Failed}

\* bot.guilds at the time of a sweep: the guilds the bot is in, in some order.
GuildSeqs == {s \in {<<g, h>> : g \in Guilds, h \in Guilds} : s[1] # s[2]}

\* ------------------------------------------------------- Python dicts ----

\* {} : the dict with no key.
EmptyDict == [k \in {} |-> None]

\* d[k] = v
DictSet(d, k, v) == [x \in (DOMAIN d) \cup {k} |-> IF x = k THEN v ELSE d[x]]

\* del d[k], for a key d has
DictDel(d, k) == [x \in (DOMAIN d) \ {k} |-> d[x]]

\* d.get(k), as an Optional
DictGet(d, k) == IF k \in DOMAIN d THEN Some(d[k]) ELSE NoneOf

\* {invite.code: invite for invite in invites}: a later invite of the same
\* code overwrites an earlier one.
RECURSIVE DictOfInvites(_)
DictOfInvites(invites) ==
    IF invites = <<>> THEN EmptyDict
    ELSE LET n == Len(invites)
         IN  DictSet(DictOfInvites(SubSeq(invites, 1, n - 1)), invites[n].code, invites[n])

\* ------------------------------------------------------------- state ----

VARIABLES
    cache,          \* InviteCache._cache: guild id -> (code -> Invite)
    user_invited,   \* table user_invited (UserInvitedModel), keyed by its pk id
    memo,           \* the alru_cache of Database.get_guild_invites: guild -> result
    guild_tbl,      \* table guild (GuildModel): the ids
    invite_tbl,     \* table guild_invite (GuildInviteModel): row id -> [code, uses]
    guild_invites,  \* the many-to-many table GuildModel.invites: <<guild id, row id>>
    sweep,          \* the guilds update_invites_cache has still to load
    inviter_memo,   \* the alru_cache of InviteTracker.get_inviter:
                    \* <<member id, guild id>> -> result
    invited_memo,   \* the alru_cache of InviteTracker.get_invited_members:
                    \* <<user id, guild id>> -> result
    ev,             \* the handler step that just ran: what it was given and how
                    \* it ended; Idle once the event loop has control again
    recreate,       \* history: how far the events on_invite_delete ->
                    \* on_invite_create -> on_member_join of one invite have
                    \* come (no handler reads it)
    platform,       \* the platform: the invites of a guild as guild.invites()
                    \* lists them now
    joining,        \* the on_member_join handlers in flight: member id ->
                    \* where the handler is and what its fetch returned
    seeded,         \* history: the use counts the startup load put in the
                    \* cache (no handler reads it)
    left            \* history: the guilds whose cache entry on_guild_remove
                    \* has dropped and that were not joined again (no
                    \* handler reads it)

vars == <<cache, user_invited, memo, guild_tbl, invite_tbl, guild_invites, sweep,
          inviter_memo, invited_memo, ev, recreate, platform, joining, seeded, left>>

\* The platform state, the handlers in flight and the histories, which the
\* handler steps taken one whole handler at a time leave alone.
aside == <<recreate, platform, joining, seeded, left>>

\* No handler has run since the event loop took control back.
Idle == [op |-> "idle"]

\* No deletion of a cached invite is being followed.
NoRecreate == [stage |-> 0]

\* The state of the package after InviteTracker.__init__ and before any
\* task or listener has run.
Constructed ==
    /\ cache = EmptyDict
    /\ user_invited = EmptyDict
    /\ memo = EmptyDict
    /\ guild_tbl = {}
    /\ invite_tbl = <<>>
    /\ guild_invites = {}
    /\ sweep = <<>>
    /\ inviter_memo = EmptyDict
    /\ invited_memo = EmptyDict
    /\ ev = Idle
    /\ recreate = NoRecreate
    /\ joining = EmptyDict
    /\ seeded = NoneOf
    /\ left = {}

\* Where the invite lists are inputs of the handler steps the platform is
\* not followed.
Init ==
    /\ Constructed
    /\ platform = <<>>

\* ------------------------------------------------------ InviteCache ----

\* As get, but a guild without entry is given an empty dict, which is
\* returned (what indexing a defaultdict(dict) does).
get_defaulting(c, guild_id) ==
    IF guild_id \in DOMAIN c
    THEN [ret |-> Some(c[guild_id]), cache |-> c]
    ELSE [ret |-> Some(EmptyDict), cache |-> DictSet(c, guild_id, EmptyDict)]

\* InviteCache.get(guild_id): the guild's dict or None, and the cache
\* afterwards (self._cache.get writes nothing).
get(c, guild_id) == [ret |-> DictGet(c, guild_id), cache |-> c]

\* As update, but the new dict is merged into the guild's old one.
update_merged(c, guild_id, invites) ==
    IF guild_id \notin DOMAIN c THEN DictSet(c, guild_id, invites)
    ELSE DictSet(c, guild_id,
                 [k \in (DOMAIN c[guild_id]) \cup (DOMAIN invites) |->
                      IF k \in DOMAIN invites THEN invites[k] ELSE c[guild_id][k]])

\* InviteCache.update(guild_id, invites) with a dict: the guild's dict is
\* replaced by `invites`.
update(c, guild_id, invites) == DictSet(c, guild_id, invites)

\* As add_invite, but the guild's dict is started afresh every time.
add_invite_afresh(c, guild_id, invite) ==
    DictSet(c, guild_id, DictSet(EmptyDict, invite.code, invite))

\* InviteCache.add_invite(guild_id, invite): the cache afterwards.
add_invite(c, guild_id, invite) ==
    LET c1 == IF guild_id \notin DOMAIN c THEN DictSet(c, guild_id, EmptyDict) ELSE c
    IN  DictSet(c1, guild_id, DictSet(c1[guild_id], invite.code, invite))

\* As delete_invite, but a guild without entry is given an empty dict on
\* the way (what indexing a defaultdict(dict) does).
delete_invite_defaulting(c, guild_id, invite_code) ==
    IF guild_id \in DOMAIN c /\ invite_code \in DOMAIN c[guild_id]
    THEN [ret |-> Some(c[guild_id][invite_code]),
          cache |-> DictSet(c, guild_id, DictDel(c[guild_id], invite_code))]
    ELSE [ret |-> NoneOf,
          cache |-> IF guild_id \in DOMAIN c THEN c ELSE DictSet(c, guild_id, EmptyDict)]

\* InviteCache.delete_invite(guild_id, invite_code): the value returned and
\* the cache afterwards.
delete_invite(c, guild_id, invite_code) ==
    IF guild_id \in DOMAIN c /\ invite_code \in DOMAIN c[guild_id]
    THEN [ret |-> Some(c[guild_id][invite_code]),
          cache |-> DictSet(c, guild_id, DictDel(c[guild_id], invite_code))]
    ELSE [ret |-> NoneOf, cache |-> c]

\* --------------------------------------------------------- Database ----

\* As scan_invites, but any change of the use count is taken for a use.
RECURSIVE scan_invites_changed(_, _, _, _)
scan_invites_changed(c, guild_id, old_invites, current_invites) ==
    IF current_invites = <<>>
    THEN [invite |-> NoneOf, cache |-> c, exc |-> None]
    ELSE IF old_invites = NoneOf
    THEN [invite |-> NoneOf, cache |-> c, exc |-> "AttributeError"]
    ELSE LET invite == Head(current_invites)
             old_invite == DictGet(old_invites[1], invite.code)
         IN  IF old_invite # NoneOf /\ invite.uses # old_invite[1].uses
             THEN [invite |-> Some(invite),
                   cache |-> add_invite(c, guild_id, invite),
                   exc |-> None]
             ELSE scan_invites_changed(c, guild_id, old_invites, Tail(current_invites))

\* As scan_invites, but a use count equal to the cached one is taken for a
\* use too.
RECURSIVE scan_invites_not_less(_, _, _, _)
scan_invites_not_less(c, guild_id, old_invites, current_invites) ==
    IF current_invites = <<>>
    THEN [invite |-> NoneOf, cache |-> c, exc |-> None]
    ELSE IF old_invites = NoneOf
    THEN [invite |-> NoneOf, cache |-> c, exc |-> "AttributeError"]
    ELSE LET invite == Head(current_invites)
             old_invite == DictGet(old_invites[1], invite.code)
         IN  IF old_invite # NoneOf /\ invite.uses >= old_invite[1].uses
             THEN [invite |-> Some(invite),
                   cache |-> add_invite(c, guild_id, invite),
                   exc |-> None]
             ELSE scan_invites_not_less(c, guild_id, old_invites, Tail(current_invites))

\* As scan_invites, but every invite passed over is written to the cache.
RECURSIVE scan_invites_refreshing(_, _, _, _)
scan_invites_refreshing(c, guild_id, old_invites, current_invites) ==
    IF current_invites = <<>>
    THEN [invite |-> NoneOf, cache |-> c, exc |-> None]
    ELSE IF old_invites = NoneOf
    THEN [invite |-> NoneOf, cache |-> c, exc |-> "AttributeError"]
    ELSE LET invite == Head(current_invites)
             old_invite == DictGet(old_invites[1], invite.code)
         IN  IF old_invite # NoneOf /\ invite.uses > old_invite[1].uses
             THEN [invite |-> Some(invite),
                   cache |-> add_invite(c, guild_id, invite),
                   exc |-> None]
             ELSE scan_invites_refreshing(add_invite(c, guild_id, invite), guild_id,
                                          old_invites, Tail(current_invites))

\* The loop of Database._get_invite_for_member over the invites still to
\* look at: the invite returned (or None), the cache afterwards, and the
\* exception raised, if any.  old_invites is what InviteCache.get gave: on
\* None, old_invites.get raises AttributeError at the first invite.
RECURSIVE scan_invites(_, _, _, _)
scan_invites(c, guild_id, old_invites, current_invites) ==
    IF current_invites = <<>>
    THEN [invite |-> NoneOf, cache |-> c, exc |-> None]
    ELSE IF old_invites = NoneOf
    THEN [invite |-> NoneOf, cache |-> c, exc |-> "AttributeError"]
    ELSE LET invite == Head(current_invites)
             old_invite == DictGet(old_invites[1], invite.code)
         IN  IF old_invite # NoneOf /\ invite.uses > old_invite[1].uses
             THEN [invite |-> Some(invite),
                   cache |-> add_invite(c, guild_id, invite),
                   exc |-> None]
             ELSE scan_invites(c, guild_id, old_invites, Tail(current_invites))

\* As get_invite_for_member, but a match stores the whole fetched list in
\* the guild's cache entry, not the matched invite alone.
get_invite_for_member_resyncing(c, guild_id, fetched) ==
    IF ~fetched.ok
    THEN [invite |-> NoneOf, cache |-> c, exc |-> "HTTPException"]
    ELSE LET old_invites == get(c, guild_id)
             r == scan_invites(old_invites.cache, guild_id, old_invites.ret, fetched.invites)
         IN  IF r.invite = NoneOf THEN r
             ELSE [r EXCEPT !.cache = update(c, guild_id, DictOfInvites(fetched.invites))]

\* Database._get_invite_for_member, given what member.guild.invites() gave.
get_invite_for_member(c, guild_id, fetched) ==
    IF ~fetched.ok
    THEN [invite |-> NoneOf, cache |-> c, exc |-> "HTTPException"]
    ELSE LET old_invites == get(c, guild_id)
         IN  scan_invites(old_invites.cache, guild_id, old_invites.ret, fetched.invites)

\* As user_invited_create, but a row of the same id is overwritten.
user_invited_create_or_update(tbl, id, guild_id, invite) ==
    [tbl |-> DictSet(tbl, id, [id |-> id, guild_id |-> guild_id,
                               invite_code |-> invite.code,
                               inviter_id |-> invite.inviter]),
     exc |-> None]

\* UserInvitedModel.create(id=..., guild_id=..., invite_code=..., inviter_id=...):
\* id is the primary key, so a second row of the same id is refused.
\* (joined_at is stored and never read; the model leaves it out.)
user_invited_create(tbl, id, guild_id, invite) ==
    IF id \in DOMAIN tbl
    THEN [tbl |-> tbl, exc |-> "IntegrityError"]
    ELSE [tbl |-> DictSet(tbl, id, [id |-> id, guild_id |-> guild_id,
                                    invite_code |-> invite.code,
                                    inviter_id |-> invite.inviter]),
          exc |-> None]

\* Database.add_member (on_member_join): reconcile, then record the join.
add_member(m, g, fetched) ==
    LET r == get_invite_for_member(cache, g, fetched)
        w == IF r.invite = NoneOf
             THEN [tbl |-> user_invited, exc |-> r.exc]
             ELSE user_invited_create(user_invited, m, g, r.invite[1])
    IN  /\ ev = Idle
        /\ cache' = r.cache
        /\ user_invited' = w.tbl
        /\ ev' = [op |-> "member_join", g |-> g, m |-> m, fetched |-> fetched,
                  res |-> r.invite, exc |-> w.exc]
        /\ UNCHANGED <<memo, guild_tbl, invite_tbl, guild_invites, sweep, inviter_memo, invited_memo>>

\* UserInvitedModel.filter(id=id, guild_id=guild_id).first(), as an Optional.
user_invited_first(tbl, id, guild_id) ==
    IF id \in DOMAIN tbl /\ tbl[id].guild_id = guild_id THEN Some(tbl[id]) ELSE NoneOf

\* As user_invited_delete, but the row of the member is looked up by its id
\* alone, whatever its guild.
user_invited_delete_by_id(tbl, id, guild_id) ==
    IF id \in DOMAIN tbl THEN DictDel(tbl, id) ELSE tbl

\* result = ....first(); if result: await result.delete()
user_invited_delete(tbl, id, guild_id) ==
    IF user_invited_first(tbl, id, guild_id) # NoneOf THEN DictDel(tbl, id) ELSE tbl

\* Database.delete_member (on_member_remove): the row of this member id in
\* this guild is deleted, if there is one.
delete_member(m, g) ==
    /\ ev = Idle
    /\ user_invited' = user_invited_delete(user_invited, m, g)
    /\ ev' = [op |-> "member_leave", g |-> g, m |-> m,
              result |-> user_invited_first(user_invited, m, g)]
    /\ UNCHANGED <<cache, memo, guild_tbl, invite_tbl, guild_invites, sweep, inviter_memo, invited_memo>>

\* UserInvitedModel.filter(invite_code=code).delete()
user_invited_delete_code(tbl, code) ==
    [id \in {i \in DOMAIN tbl : tbl[i].invite_code # code} |-> tbl[id]]

\* Database.delete_invite (on_invite_delete).
db_delete_invite(g, code) ==
    /\ ev = Idle
    /\ cache' = delete_invite(cache, g, code).cache
    /\ user_invited' = user_invited_delete_code(user_invited, code)
    /\ ev' = [op |-> "invite_delete", g |-> g, code |-> code,
              ret |-> delete_invite(cache, g, code).ret]
    /\ UNCHANGED <<memo, guild_tbl, invite_tbl, guild_invites, sweep, inviter_memo, invited_memo>>

\* One turn of the loop of InviteCache.update_invites_cache over the guilds
\* `todo`: the invites of the first are awaited and put in the cache; an
\* exception of guild.invites() leaves the loop and ends the sweep.
sweep_guild(todo, fetched) ==
    LET g == Head(todo)
    IN  /\ ev = Idle
        /\ cache' = IF fetched.ok
                    THEN update(cache, g, DictOfInvites(fetched.invites))
                    ELSE cache
        /\ sweep' = IF fetched.ok THEN Tail(todo) ELSE <<>>
        /\ ev' = [op |-> "load", g |-> g, fetched |-> fetched,
                  before |-> DictGet(cache, g), rest |-> Tail(todo),
                  exc |-> IF fetched.ok THEN None ELSE "HTTPException"]
        /\ UNCHANGED <<user_invited, memo, guild_tbl, invite_tbl, guild_invites, inviter_memo, invited_memo>>

\* Database.load_invites_to_cache: the sweep starts over bot.guilds and
\* runs to its first await.
load_invites_to_cache(guilds, fetched) ==
    /\ sweep = <<>>
    /\ sweep_guild(guilds, fetched)

\* InviteCache.update_invites_cache resumes with the next guild.
update_invites_cache(fetched) ==
    /\ sweep # <<>>
    /\ sweep_guild(sweep, fetched)

\* Database.get_guild_invites(guild) under @alru_cache(maxsize=None): the
\* first call for a guild awaits guild.invites() and keeps what it returns
\* (the list, or None after HTTPException/Forbidden); every later call
\* for that guild returns the kept value without asking the platform.
get_guild_invites(mm, guild, fetched) ==
    IF guild \in DOMAIN mm
    THEN [ret |-> mm[guild], memo |-> mm, live |-> FALSE]
    ELSE LET ret == IF fetched.ok THEN Some(fetched.invites) ELSE NoneOf
         IN  [ret |-> ret, memo |-> DictSet(mm, guild, ret), live |-> TRUE]

\* What a call of get_guild_invites(guild) can get from the platform: it
\* asks only when it has kept nothing for the guild.
GuildFetches(guild) == IF guild \in DOMAIN memo THEN {Failed} ELSE FetchOutcomes

\* `not invites` for an Optional[list]: None, or the empty list.
falsy(invites) == invites = NoneOf \/ invites[1] = <<>>

\* The ids of the guild_invite rows linked to guild_id that have this code.
linked_rows(db, guild_id, code) ==
    {r \in DOMAIN db.invites : <<guild_id, r>> \in db.links /\ db.invites[r].code = code}

Min(S) == CHOOSE x \in S : \A y \in S : x <= y

\* Database.find_invite_in_guild(guild_id, code): the guild row is created
\* if missing; the first row of this code linked to the guild is returned,
\* or a new row (uses 0) is created and linked.
find_invite_in_guild(db, guild_id, code) ==
    LET found == linked_rows(db, guild_id, code)
        new == Len(db.invites) + 1
    IN  IF found # {}
        THEN [row |-> Min(found),
              db |-> [db EXCEPT !.guilds = @ \cup {guild_id}]]
        ELSE [row |-> new,
              db |-> [guilds |-> db.guilds \cup {guild_id},
                      invites |-> Append(db.invites, [code |-> code, uses |-> 0]),
                      links |-> db.links \cup {<<guild_id, new>>}]]

\* The loop of Database._add_invs_to_db: each invite's row is found or
\* created and its uses overwritten by the invite's.
RECURSIVE add_invs_to_db(_, _, _)
add_invs_to_db(db, guild_id, invites) ==
    IF invites = <<>> THEN db
    ELSE LET invite == Head(invites)
             data == find_invite_in_guild(db, guild_id, invite.code)
             saved == [data.db EXCEPT !.invites[data.row].uses = invite.uses]
         IN  add_invs_to_db(saved, guild_id, Tail(invites))

\* The three tables of guilds and invites as one value.
Tables == [guilds |-> guild_tbl, invites |-> invite_tbl, links |-> guild_invites]

\* Database.add_new_guild_invites (on_guild_join): _add_invs_to_db.
add_new_guild_invites(g, fetched) ==
    LET got == get_guild_invites(memo, g, fetched)
        db == IF falsy(got.ret) THEN Tables
              ELSE add_invs_to_db(Tables, g, got.ret[1])
    IN  /\ ev = Idle
        /\ Len(db.invites) <= MaxRows
        /\ memo' = got.memo
        /\ guild_tbl' = db.guilds
        /\ invite_tbl' = db.invites
        /\ guild_invites' = db.links
        /\ ev' = [op |-> "guild_join", g |-> g, live |-> got.live,
                  invites |-> got.ret, exc |-> None]
        /\ UNCHANGED <<cache, user_invited, sweep, inviter_memo, invited_memo>>

\* The loop of Database.remove_guild_invites: InviteCache.delete_invite for
\* every invite of the list.
RECURSIVE delete_invites(_, _, _)
delete_invites(c, guild_id, invites) ==
    IF invites = <<>> THEN c
    ELSE delete_invites(delete_invite(c, guild_id, Head(invites).code).cache,
                        guild_id, Tail(invites))

\* Database.remove_guild_invites (on_guild_remove).  `del cache[guild.id]`
\* raises KeyError when the guild has no entry, before the guild row is
\* deleted; deleting the guild row deletes its links (ON DELETE CASCADE).
remove_guild_invites(g, fetched) ==
    LET got == get_guild_invites(memo, g, fetched)
        c1 == IF falsy(got.ret) THEN cache ELSE delete_invites(cache, g, got.ret[1])
        raised == ~falsy(got.ret) /\ g \notin DOMAIN c1
        deleted == ~falsy(got.ret) /\ ~raised
    IN  /\ ev = Idle
        /\ memo' = got.memo
        /\ cache' = IF deleted THEN DictDel(c1, g) ELSE c1
        /\ guild_tbl' = IF deleted THEN guild_tbl \ {g} ELSE guild_tbl
        /\ guild_invites' = IF deleted
                            THEN {l \in guild_invites : l[1] # g}
                            ELSE guild_invites
        /\ ev' = [op |-> "guild_remove", g |-> g, live |-> got.live,
                  invites |-> got.ret,
                  exc |-> IF raised THEN "KeyError" ELSE None]
        /\ UNCHANGED <<user_invited, invite_tbl, sweep, inviter_memo, invited_memo>>

\* Database.add_invite (on_invite_create): the cache first, then
\* GuildModel.get_or_create(id), GuildInviteModel.get_or_create(code=code)
\* (over all guilds; MultipleObjectsReturned when several rows have the
\* code) and guild_model.invites.add.
db_add_invite(g, invite) ==
    LET rows == {r \in DOMAIN invite_tbl : invite_tbl[r].code = invite.code}
        new == Len(invite_tbl) + 1
        row == IF rows = {} THEN new ELSE Min(rows)
        raised == Cardinality(rows) > 1
    IN  /\ ev = Idle
        /\ new <= MaxRows \/ rows # {}
        /\ cache' = add_invite(cache, g, invite)
        /\ guild_tbl' = guild_tbl \cup {g}
        /\ invite_tbl' = IF rows = {}
                         THEN Append(invite_tbl, [code |-> invite.code, uses |-> 0])
                         ELSE invite_tbl
        /\ guild_invites' = IF raised THEN guild_invites
                            ELSE guild_invites \cup {<<g, row>>}
        /\ ev' = [op |-> "invite_create", g |-> g, invite |-> invite,
                  initialized |-> g \notin DOMAIN cache,
                  exc |-> IF raised THEN "MultipleObjectsReturned" ELSE None]
        /\ UNCHANGED <<user_invited, memo, sweep, inviter_memo, invited_memo>>

\* The body of InviteTracker.get_inviter: the row of the member in the
\* guild is read (UserInvitedModel.get_or_none); with a row that has an
\* inviter_id, guild.fetch_member(inviter_id) is awaited and its Member
\* returned (the model keeps the id), or its exception raised when the
\* platform does not find the inviter; otherwise None is returned.
inviter_of_record(tbl, member_id, guild_id, found) ==
    LET row == user_invited_first(tbl, member_id, guild_id)
    IN  IF row # NoneOf /\ row[1].inviter_id # None
        THEN IF found THEN [ret |-> row[1].inviter_id, exc |-> None]
                      ELSE [ret |-> None, exc |-> "NotFound"]
        ELSE [ret |-> None, exc |-> None]

\* InviteTracker.get_inviter(member_id, guild) under @alru_cache(maxsize=1000):
\* a call whose arguments have a kept result returns it without reading
\* the table; any other call runs the body and its result is kept (an
\* exception is raised to the caller and not kept).  The model never has
\* more than maxsize keys, so nothing is evicted.
cached_get_inviter(mm, tbl, m, g, found) ==
    LET key == <<m, g>>
        r == inviter_of_record(tbl, m, g, found)
    IN  IF key \in DOMAIN mm
        THEN [ret |-> mm[key], exc |-> None, memo |-> mm, hit |-> TRUE]
        ELSE [ret |-> r.ret, exc |-> r.exc, hit |-> FALSE,
              memo |-> IF r.exc = None THEN DictSet(mm, key, r.ret) ELSE mm]

\* The application asks who invited member m of guild g (who_invited of
\* examples/bot.py).
get_inviter(m, g, found) ==
    LET r == cached_get_inviter(inviter_memo, user_invited, m, g, found)
    IN  /\ ev = Idle
        /\ inviter_memo' = r.memo
        /\ ev' = [op |-> "get_inviter", g |-> g, m |-> m, hit |-> r.hit,
                  ret |-> r.ret, exc |-> r.exc]
        /\ UNCHANGED <<cache, user_invited, memo, guild_tbl, invite_tbl,
                       guild_invites, sweep, invited_memo>>

\* The elements of a set of ids as a list in ascending order (the order of
\* the primary key, in which .all() returns the rows).
RECURSIVE Ascending(_)
Ascending(S) == IF S = {} THEN <<>> ELSE <<Min(S)>> \o Ascending(S \ {Min(S)})

\* The body of InviteTracker.get_invited_members: the rows of the guild
\* whose inviter_id is user_id are read and guild.fetch_member(row.id) is
\* awaited for each (the model keeps the ids); [] when there is no row.
\* An exception of fetch_member is raised to the caller.
members_of_inviter(tbl, user_id, guild_id, found) ==
    LET invites == {id \in DOMAIN tbl : /\ tbl[id].inviter_id = user_id
                                        /\ tbl[id].guild_id = guild_id}
    IN  IF invites # {} /\ ~found
        THEN [ret |-> <<>>, exc |-> "NotFound"]
        ELSE [ret |-> Ascending(invites), exc |-> None]

\* InviteTracker.get_invited_members(user_id, guild) under
\* @alru_cache(maxsize=1000): as get_inviter, a kept result is returned
\* without reading the table.
cached_get_invited_members(mm, tbl, u, g, found) ==
    LET key == <<u, g>>
        r == members_of_inviter(tbl, u, g, found)
    IN  IF key \in DOMAIN mm
        THEN [ret |-> mm[key], exc |-> None, memo |-> mm, hit |-> TRUE]
        ELSE [ret |-> r.ret, exc |-> r.exc, hit |-> FALSE,
              memo |-> IF r.exc = None THEN DictSet(mm, key, r.ret) ELSE mm]

\* The application asks whom user u has invited to guild g (my_invites of
\* examples/bot.py).
get_invited_members(u, g, found) ==
    LET r == cached_get_invited_members(invited_memo, user_invited, u, g, found)
    IN  /\ ev = Idle
        /\ invited_memo' = r.memo
        /\ ev' = [op |-> "get_invited_members", g |-> g, u |-> u, hit |-> r.hit,
                  ret |-> r.ret, exc |-> r.exc]
        /\ UNCHANGED <<cache, user_invited, memo, guild_tbl, invite_tbl,
                       guild_invites, sweep, inviter_memo>>

\* The handler step has ended (returned, raised, or reached its next
\* await) and the event loop is free to run the next one.
handler_done ==
    /\ ev # Idle
    /\ ev' = Idle
    /\ UNCHANGED <<cache, user_invited, memo, guild_tbl, invite_tbl, guild_invites, sweep, inviter_memo, invited_memo>>

\* ---------------------------------------------------- specifications ----

\* Startup load, member joins and leaves, invite deletions, one handler
\* step at a time.
Next ==
    \/ \E gs \in GuildSeqs, f \in FetchOutcomes : load_invites_to_cache(gs, f) /\ UNCHANGED aside
    \/ \E f \in FetchOutcomes : update_invites_cache(f) /\ UNCHANGED aside
    \/ \E m \in Members, g \in Guilds, f \in FetchOutcomes : add_member(m, g, f) /\ UNCHANGED aside
    \/ \E m \in Members, g \in Guilds : delete_member(m, g) /\ UNCHANGED aside
    \/ \E g \in Guilds, code \in Codes : db_delete_invite(g, code) /\ UNCHANGED aside
    \/ handler_done /\ UNCHANGED aside

Spec == Init /\ [][Next]_vars

\* The guild lifecycle: the bot joins and leaves guilds, invites are created.
NextGuild ==
    \/ \E g \in Guilds : \E f \in GuildFetches(g) : add_new_guild_invites(g, f) /\ UNCHANGED aside
    \/ \E g \in Guilds : \E f \in GuildFetches(g) : remove_guild_invites(g, f) /\ UNCHANGED aside
    \/ \E g \in Guilds, i \in Invites : db_add_invite(g, i) /\ UNCHANGED aside
    \/ handler_done /\ UNCHANGED aside

SpecGuild == Init /\ [][NextGuild]_vars

\* The members whose joins, leaves and inviter look-ups are followed.
Askers == {1}

\* The join records and their look-up: startup load, joins and leaves of
\* the members followed, and the application asking who invited them.
NextRecords ==
    \/ \E gs \in GuildSeqs, f \in FetchOutcomes : load_invites_to_cache(gs, f) /\ UNCHANGED aside
    \/ \E f \in FetchOutcomes : update_invites_cache(f) /\ UNCHANGED aside
    \/ \E m \in Askers, g \in Guilds, f \in FetchOutcomes : add_member(m, g, f) /\ UNCHANGED aside
    \/ \E m \in Askers, g \in Guilds : delete_member(m, g) /\ UNCHANGED aside
    \/ \E m \in Askers, g \in Guilds, found \in BOOLEAN : get_inviter(m, g, found) /\ UNCHANGED aside
    \/ handler_done /\ UNCHANGED aside

SpecRecords == Init /\ [][NextRecords]_vars

\* Highest use count of the invites that are created, deleted and created
\* again.
MaxCount == 2

\* The invites of on_invite_create and of the live lists that follow it.
Snapshots == {Invite(c, u) : c \in Codes, u \in 0..MaxCount}

\* What guild.invites() gives a member join here: at most one invite.
SnapshotFetches ==
    {Fetched(<<>>), Failed} \cup {Fetched(<<i>>) : i \in Snapshots}

\* The history after the handler step e, given the history h before it:
\* stage 1 once on_invite_delete has removed a cached invite (its use count
\* is kept as `old`), stage 2 once the next event has created the invite
\* again in the same guild with use count 0, stage 3 once the event after
\* that was a member join of the guild; any other event ends the history.
Observe(h, e) ==
    IF e.op = "invite_delete" /\ e.ret # NoneOf
    THEN [stage |-> 1, g |-> e.g, code |-> e.code, old |-> e.ret[1].uses]
    ELSE IF /\ h.stage = 1 /\ e.op = "invite_create"
            /\ e.g = h.g /\ e.invite.code = h.code /\ e.invite.uses = 0
    THEN [h EXCEPT !.stage = 2]
    ELSE IF h.stage = 2 /\ e.op = "member_join" /\ e.g = h.g
    THEN [h EXCEPT !.stage = 3]
    ELSE NoRecreate

\* The cache under invite creation and deletion and member joins, with
\* the history of deleted and re-created invites.
NextCache ==
    \/ \E g \in Guilds, i \in Snapshots :
           db_add_invite(g, i) /\ recreate' = Observe(recreate, ev')
           /\ UNCHANGED <<platform, joining, seeded, left>>
    \/ \E g \in Guilds, code \in Codes :
           db_delete_invite(g, code) /\ recreate' = Observe(recreate, ev')
           /\ UNCHANGED <<platform, joining, seeded, left>>
    \/ \E m \in Askers, g \in Guilds, f \in SnapshotFetches :
           add_member(m, g, f) /\ recreate' = Observe(recreate, ev')
           /\ UNCHANGED <<platform, joining, seeded, left>>
    \/ handler_done /\ UNCHANGED aside

SpecCache == Init /\ [][NextCache]_vars

\* What guild.invites() gives the sweeps and guild look-ups below: at most
\* one invite.
ShortFetches == {Fetched(<<>>), Failed} \cup {Fetched(<<i>>) : i \in Invites}

\* What a call of get_guild_invites(guild) can get from the platform there.
ShortGuildFetches(guild) == IF guild \in DOMAIN memo THEN {Failed} ELSE ShortFetches

\* The startup load (resync) next to the guild look-ups of on_guild_join
\* and on_guild_remove.
NextMemo ==
    \/ \E gs \in GuildSeqs, f \in ShortFetches :
           load_invites_to_cache(gs, f) /\ UNCHANGED aside
    \/ \E f \in ShortFetches : update_invites_cache(f) /\ UNCHANGED aside
    \/ \E g \in Guilds : \E f \in ShortGuildFetches(g) :
           add_new_guild_invites(g, f) /\ UNCHANGED aside
    \/ \E g \in Guilds : \E f \in ShortGuildFetches(g) :
           remove_guild_invites(g, f) /\ UNCHANGED aside
    \/ handler_done /\ UNCHANGED aside

SpecMemo == Init /\ [][NextMemo]_vars

\* The users who ask for the members they invited: the inviters of the
\* invites of the model.
Inviters == {InviterOf(c) : c \in Codes} \ {None}

\* The join records and the list of the members a user invited: startup
\* load, joins and leaves, and the application asking for the list.
NextInvited ==
    \/ \E gs \in GuildSeqs, f \in ShortFetches :
           load_invites_to_cache(gs, f) /\ UNCHANGED aside
    \/ \E f \in ShortFetches : update_invites_cache(f) /\ UNCHANGED aside
    \/ \E m \in Members, g \in Guilds, f \in ShortFetches :
           add_member(m, g, f) /\ UNCHANGED aside
    \/ \E m \in Members, g \in Guilds : delete_member(m, g) /\ UNCHANGED aside
    \/ \E u \in Inviters, g \in Guilds, found \in BOOLEAN :
           get_invited_members(u, g, found) /\ UNCHANGED aside
    \/ handler_done /\ UNCHANGED aside

SpecInvited == Init /\ [][NextInvited]_vars

\* The guild whose members' joins are followed with their handlers in
\* flight, and the users who join it.
JoinGuild == 1
Joiners == {1, 2, 3}

\* The program state, which the platform's own steps leave alone.
program == <<cache, user_invited, memo, guild_tbl, invite_tbl, guild_invites,
             sweep, inviter_memo, invited_memo>>

\* The invite list with one more use of the invite `code`.
Used(invites, code) ==
    [k \in 1..Len(invites) |->
        IF invites[k].code = code THEN Invite(code, invites[k].uses + 1)
        ELSE invites[k]]

\* What awaiting guild.invites() gives now for JoinGuild: the platform's
\* list of the guild, or an exception.
PlatformFetches == {Fetched(platform), Failed}

\* A user joins JoinGuild, through the invite `code` of the guild, whose
\* use count the platform raises, or without using an invite (code =
\* None); on_member_join is dispatched and Database.add_member runs to its
\* await of member.guild.invites().
member_arrives(m, code) ==
    /\ ev = Idle
    /\ m \notin DOMAIN joining
    /\ code = None \/ \E k \in 1..Len(platform) : platform[k].code = code
    /\ platform' = IF code = None THEN platform ELSE Used(platform, code)
    /\ joining' = DictSet(joining, m, [at |-> "fetch"])
    /\ UNCHANGED <<program, ev, recreate, seeded, left>>

\* The platform answers the guild.invites() of member m's handler with
\* its list of this moment; the handler is ready to resume.
invites_fetched(m, fetched) ==
    /\ ev = Idle
    /\ m \in DOMAIN joining
    /\ joining[m].at = "fetch"
    /\ joining' = DictSet(joining, m, [at |-> "resume", fetched |-> fetched])
    /\ UNCHANGED <<program, ev, recreate, platform, seeded, left>>

\* The handler of member m resumes with what its fetch returned and runs
\* the rest of Database.add_member: the comparison with the cache, the
\* cache write and the join record.
add_member_resumed(m) ==
    /\ m \in DOMAIN joining
    /\ joining[m].at = "resume"
    /\ add_member(m, JoinGuild, joining[m].fetched)
    /\ joining' = DictSet(joining, m, [at |-> "done", fetched |-> joining[m].fetched])
    /\ UNCHANGED <<recreate, platform, seeded, left>>

\* The history of the use counts the startup load put in the cache for
\* JoinGuild, after the handler step e.
Seed(h, e) ==
    IF e.op = "load" /\ e.g = JoinGuild /\ e.fetched.ok
    THEN Some(DictOfInvites(e.fetched.invites))
    ELSE h

\* Concurrent member joins of one guild, the only guild the bot is in:
\* the startup load seeds the cache of the guild once; users join, and
\* their on_member_join handlers are suspended at their fetch and resume
\* in any order.  No invite is created or deleted and the guild is not
\* loaded again.
NextJoins ==
    \/ \E f \in PlatformFetches :
           /\ JoinGuild \notin DOMAIN cache
           /\ load_invites_to_cache(<<JoinGuild>>, f)
           /\ seeded' = Seed(seeded, ev')
           /\ UNCHANGED <<recreate, platform, joining, left>>
    \/ \E m \in Joiners, code \in Codes \cup {None} : member_arrives(m, code)
    \/ \E m \in Joiners : \E f \in PlatformFetches : invites_fetched(m, f)
    \/ \E m \in Joiners : add_member_resumed(m)
    \/ handler_done /\ UNCHANGED aside

\* The platform starts with some invites in JoinGuild.
InitJoins ==
    /\ Constructed
    /\ platform \in LiveLists

SpecJoins == InitJoins /\ [][NextJoins]_vars

\* The guilds the bot has left, after the handler step e that took the
\* cache from `before` to `after`, given the set h before the step: a guild
\* enters when on_guild_remove has dropped its cache entry and leaves the
\* set at the next on_guild_join of the guild.
Departed(h, e, before, after) ==
    IF e.op = "guild_remove" /\ e.g \in DOMAIN before /\ e.g \notin DOMAIN after
    THEN h \cup {e.g}
    ELSE IF e.op = "guild_join" THEN h \ {e.g}
    ELSE h

\* Gateway events of a guild around the bot leaving it: guild join and
\* remove, invite create and invite delete, in any order.
NextLeft ==
    \/ \E g \in Guilds : \E f \in ShortGuildFetches(g) :
           /\ add_new_guild_invites(g, f)
           /\ left' = Departed(left, ev', cache, cache')
           /\ UNCHANGED <<recreate, platform, joining, seeded>>
    \/ \E g \in Guilds : \E f \in ShortGuildFetches(g) :
           /\ remove_guild_invites(g, f)
           /\ left' = Departed(left, ev', cache, cache')
           /\ UNCHANGED <<recreate, platform, joining, seeded>>
    \/ \E g \in Guilds, i \in Invites :
           /\ db_add_invite(g, i)
           /\ left' = Departed(left, ev', cache, cache')
           /\ UNCHANGED <<recreate, platform, joining, seeded>>
    \/ \E g \in Guilds, code \in Codes :
           /\ db_delete_invite(g, code)
           /\ left' = Departed(left, ev', cache, cache')
           /\ UNCHANGED <<recreate, platform, joining, seeded>>
    \/ handler_done /\ UNCHANGED aside

SpecLeft == Init /\ [][NextLeft]_vars

\* ------------------------------------------------------------ claims ----

\* The cached invite of a code in a guild, as an Optional.
Cached(c, g, code) ==
    IF g \in DOMAIN c /\ code \in DOMAIN c[g] THEN Some(c[g][code]) ELSE NoneOf

\* The guild's dict in cache d equals its dict in cache c (or both lack it).
SameGuild(c, d, g) ==
    /\ g \in DOMAIN c <=> g \in DOMAIN d
    /\ g \in DOMAIN c => c[g] = d[g]

\* The positions of the live list whose invite is cached in g with a
\* strictly smaller use count.
Increased(c, g, live) ==
    {k \in 1..Len(live) :
        /\ Cached(c, g, live[k].code) # NoneOf
        /\ Cached(c, g, live[k].code)[1].uses < live[k].uses}

\* The rows of a table.
Rows(tbl) == {tbl[k] : k \in DOMAIN tbl}

\* C1: for a guild that has a cache entry, _get_invite_for_member returns
\* the first invite of the live list, in list order, that is cached with a
\* strictly smaller use count, passing over uncached codes, and None when
\* there is no such invite.
C1_FirstMatch ==
    [][(ev'.op = "member_join" /\ ev'.fetched.ok /\ ev'.g \in DOMAIN cache) =>
        LET live == ev'.fetched.invites
            hits == Increased(cache, ev'.g, live)
        IN  IF hits = {}
            THEN ev'.res = NoneOf
            ELSE \E k \in hits : /\ \A j \in hits : k <= j
                                 /\ ev'.res = Some(live[k])]_vars

\* C1 witness: cache {A:0, B:0}, live [B:1, A:1]: B is returned, and A,
\* which rose too, keeps its cached count.
C1_Witness ==
    /\ ev.op = "member_join"
    /\ ev.fetched = Fetched(<<Invite("B", 1), Invite("A", 1)>>)
    /\ ev.res = Some(Invite("B", 1))
    /\ Cached(cache, ev.g, "A") = Some(Invite("A", 0))

\* C2: when _get_invite_for_member returns an invite L, the cache entry of
\* the guild for L.code holds L afterwards and every other entry, of this
\* guild and of every other, is as before.
C2_OnlyMatchWritten ==
    [][(ev'.op = "member_join" /\ ev'.res # NoneOf) =>
        \A g \in Guilds :
            /\ g \in DOMAIN cache' <=> g \in DOMAIN cache
            /\ \A code \in Codes :
                   Cached(cache', g, code) =
                       IF g = ev'.g /\ code = ev'.res[1].code
                       THEN ev'.res
                       ELSE Cached(cache, g, code)]_vars

\* C2 witness: a match was written while the guild holds a second code and
\* another guild holds invites too.
C2_Witness ==
    /\ ev.op = "member_join"
    /\ ev.res # NoneOf
    /\ Cached(cache, ev.g, ev.res[1].code) = ev.res
    /\ \E code \in Codes \ {ev.res[1].code} : Cached(cache, ev.g, code) # NoneOf
    /\ \E g \in Guilds \ {ev.g}, code \in Codes : Cached(cache, g, code) # NoneOf

\* C3: when _get_invite_for_member returns None, the whole cache is as it
\* was before the call.
C3_NoneLeavesCache ==
    [][(ev'.op = "member_join" /\ ev'.res = NoneOf /\ ev'.exc = None) =>
        cache' = cache]_vars

\* C3 witness: cache {A:1}, live [A:1]: None is returned.
C3_Witness ==
    /\ ev.op = "member_join"
    /\ ev.res = NoneOf
    /\ ev.exc = None
    /\ ev.fetched = Fetched(<<Invite("A", 1)>>)
    /\ Cached(cache, ev.g, "A") = Some(Invite("A", 1))

\* C4: a member join in a guild that has no cache entry returns None
\* without raising, for any live list, and changes neither the cache nor
\* the join records.
C4_AbsentGuildIsEmpty ==
    [][(ev'.op = "member_join" /\ ev'.fetched.ok /\ ev'.g \notin DOMAIN cache) =>
        /\ ev'.exc = None
        /\ ev'.res = NoneOf
        /\ cache' = cache
        /\ user_invited' = user_invited]_vars

\* C5: a member join that matches live invite L adds exactly one join
\* record, carrying the member id, the guild id, L.code and L's inviter id
\* (None if L has no inviter).  (Stated for a member with no record in
\* the guild joined.)
C5_MatchAddsRecord ==
    [][(/\ ev'.op = "member_join"
        /\ ev'.res # NoneOf
        /\ \A r \in Rows(user_invited) : ~(r.id = ev'.m /\ r.guild_id = ev'.g)) =>
        LET row == [id |-> ev'.m, guild_id |-> ev'.g,
                    invite_code |-> ev'.res[1].code,
                    inviter_id |-> ev'.res[1].inviter]
        IN  /\ row \notin Rows(user_invited)
            /\ Rows(user_invited') = Rows(user_invited) \cup {row}]_vars

\* C6: on_invite_delete deletes no join record: every record that existed
\* before the event exists unchanged after it.
C6_DeleteKeepsRecords ==
    [][ev'.op = "invite_delete" => user_invited' = user_invited]_vars

\* C7: after on_guild_join with a successful live fetch the guild is
\* loaded: it has a cache entry holding exactly the live invites.
C7_GuildJoinLoads ==
    (ev.op = "guild_join" /\ ev.live /\ ev.invites # NoneOf) =>
        /\ ev.g \in DOMAIN cache
        /\ \A code \in Codes :
               \/ /\ Cached(cache, ev.g, code) = NoneOf
                  /\ \A k \in 1..Len(ev.invites[1]) : ev.invites[1][k].code # code
               \/ \E k \in 1..Len(ev.invites[1]) :
                      /\ ev.invites[1][k].code = code
                      /\ Cached(cache, ev.g, code) = Some(ev.invites[1][k])

\* C8: after on_guild_remove the cache has no entry for the guild, whatever
\* listing its invites gave, and the entries of the other guilds are as
\* before.
C8_GuildRemoveDrops ==
    [][ev'.op = "guild_remove" =>
        /\ ev'.g \notin DOMAIN cache'
        /\ \A g \in Guilds \ {ev'.g} : SameGuild(cache, cache', g)]_vars

\* C9: on_guild_remove for a guild that has no cache entry (a second call,
\* or a guild never cached) raises nothing and leaves the guild without
\* entry; delete_invite for a guild without entry returns None.  (Stated
\* for the calls that get the invite list kept at an earlier call.)
C9_GuildRemoveNeverRaises ==
    /\ [][(ev'.op = "guild_remove" /\ ~ev'.live /\ ev'.g \notin DOMAIN cache) =>
            (ev'.exc = None /\ ev'.g \notin DOMAIN cache')]_vars
    /\ [](\A g \in Guilds \ DOMAIN cache, code \in Codes :
              delete_invite(cache, g, code).ret = NoneOf)

\* C10: after InviteCache.update(g, dict of the live list L) the guild's
\* entry holds exactly the codes of L with L's invites, whatever it held
\* before, and the entries of the other guilds are as before.
C10_UpdateReplaces ==
    [][(ev'.op = "load" /\ ev'.fetched.ok) =>
        LET live == ev'.fetched.invites
        IN  /\ ev'.g \in DOMAIN cache'
            /\ \A code \in Codes :
                   IF \E k \in 1..Len(live) : live[k].code = code
                   THEN \E k \in 1..Len(live) : /\ live[k].code = code
                                                 /\ Cached(cache', ev'.g, code) = Some(live[k])
                   ELSE Cached(cache', ev'.g, code) = NoneOf
            /\ \A g \in Guilds \ {ev'.g} : SameGuild(cache, cache', g)]_vars

\* C10 witness: the guild held code A before; the sweep loads [B:1]; the
\* guild holds B:1 alone, and the other guild still holds its invites.
C10_Witness ==
    /\ ev.op = "load"
    /\ ev.fetched = Fetched(<<Invite("B", 1)>>)
    /\ ev.before # NoneOf
    /\ "A" \in DOMAIN ev.before[1]
    /\ cache[ev.g] = DictSet(EmptyDict, "B", Invite("B", 1))
    /\ \E g \in Guilds \ {ev.g}, code \in Codes : Cached(cache, g, code) # NoneOf

\* C11: in the startup sweep a guild whose guild.invites() fails is skipped
\* and nothing else: no exception leaves the sweep, the sweep goes on with
\* the guilds still to load, and the cache entries written before stay.
C11_SweepSkipsFailedGuild ==
    [][(ev'.op = "load" /\ ~ev'.fetched.ok) =>
        /\ ev'.exc = None
        /\ sweep' = ev'.rest
        /\ cache' = cache]_vars

\* C12: when guild.invites() fails during on_member_join the event is
\* dropped: no exception leaves the handler, the cache is as before and no
\* join record is created.
C12_JoinFetchFailureDropped ==
    [][(ev'.op = "member_join" /\ ~ev'.fetched.ok) =>
        /\ ev'.exc = None
        /\ cache' = cache
        /\ user_invited' = user_invited]_vars

\* C14: on_member_remove of member m in guild g deletes the join record of
\* m in g if there is one and nothing else: the records of other members
\* and a record of m in another guild are as before.
C14_LeaveDeletesOwnRecord ==
    [][ev'.op = "member_leave" =>
        Rows(user_invited') =
            {r \in Rows(user_invited) : ~(r.id = ev'.m /\ r.guild_id = ev'.g)}]_vars

\* C14 witness: the leave deleted the member's record of this guild while
\* the other member keeps a record in the same guild.
C14_Witness ==
    /\ ev.op = "member_leave"
    /\ ev.result # NoneOf
    /\ ev.m \notin DOMAIN user_invited
    /\ \E r \in Rows(user_invited) : r.id # ev.m /\ r.guild_id = ev.g

\* C13: a member join that finds no matching invite (the resolve step
\* returns None) records nothing and raises nothing, and get_inviter(m, g)
\* called next returns None.  (Stated for a member who has no record in
\* the guild when joining.)
C13_NoMatchNoInviter ==
    /\ [][(ev'.op = "member_join" /\ ev'.res = NoneOf /\ ev'.exc = None) =>
            user_invited' = user_invited]_vars
    /\ [](/\ ev.op = "member_join" /\ ev.res = NoneOf /\ ev.exc = None
          /\ user_invited_first(user_invited, ev.m, ev.g) = NoneOf
          => \A found \in BOOLEAN :
                 LET r == cached_get_inviter(inviter_memo, user_invited, ev.m, ev.g, found)
                 IN  r.ret = None /\ r.exc = None)

\* The join record that add_member writes for member m of guild g and
\* invite L.
Record(m, g, L) ==
    [id |-> m, guild_id |-> g, invite_code |-> L.code, inviter_id |-> L.inviter]

\* C15: there is never more than one join record per (member, guild); no
\* step changes a record that stays; and in join (invite X) -> leave ->
\* join (invite Y) of one member in one guild the leave removes the
\* member's record, no event but the member's own join gives the member a
\* record, and the second join writes the one record of the member, naming
\* Y and Y's inviter.
C15_FreshRecordPerJoin ==
    /\ [](\A r1 \in Rows(user_invited), r2 \in Rows(user_invited) :
              (r1.id = r2.id /\ r1.guild_id = r2.guild_id) => r1 = r2)
    /\ [][\A m \in (DOMAIN user_invited) \cap (DOMAIN user_invited') :
              user_invited'[m] = user_invited[m]]_vars
    /\ [][(ev'.op = "member_leave" /\ ev'.result # NoneOf) =>
              ev'.m \notin DOMAIN user_invited']_vars
    /\ [][\A m \in (DOMAIN user_invited') \ (DOMAIN user_invited) :
              ev'.op = "member_join" /\ ev'.m = m]_vars
    /\ [][(ev'.op = "member_join" /\ ev'.res # NoneOf
                                  /\ ev'.m \notin DOMAIN user_invited) =>
              /\ ev'.exc = None
              /\ {r \in Rows(user_invited') : r.id = ev'.m}
                     = {Record(ev'.m, ev'.g, ev'.res[1])}]_vars

\* C15 witness: the member's look-up result kept for this guild is u7, so
\* the member had a record of invite A here; that record was deleted by a
\* leave (nothing overwrites a record) and the join that just ran wrote
\* the record of invite B, which has no inviter.
C15_Witness ==
    /\ ev.op = "member_join"
    /\ ev.res = Some(Invite("B", 1))
    /\ <<ev.m, ev.g>> \in DOMAIN inviter_memo
    /\ inviter_memo[<<ev.m, ev.g>>] = "u7"
    /\ Rows(user_invited) = {Record(ev.m, ev.g, Invite("B", 1))}

\* C16: after on_invite_create of invite i in guild g the cache entry of
\* (g, i.code) holds i with its reported use count (the guild's dict being
\* created if it had none), every other cache entry is as before, and the
\* guild_invite table has a row of i.code linked to g.
C16_InviteCreateStored ==
    [][ev'.op = "invite_create" =>
        /\ \A g \in Guilds, code \in Codes :
               Cached(cache', g, code) =
                   IF g = ev'.g /\ code = ev'.invite.code
                   THEN Some(ev'.invite)
                   ELSE Cached(cache, g, code)
        /\ \A g \in Guilds \ {ev'.g} : g \in DOMAIN cache' <=> g \in DOMAIN cache
        /\ \E r \in DOMAIN invite_tbl' :
               /\ invite_tbl'[r].code = ev'.invite.code
               /\ <<ev'.g, r>> \in guild_invites']_vars

\* C17: InviteCache.delete_invite(g, code) removes the entry (g, code) and
\* nothing else and returns the invite it held, when there is such an
\* entry; when the code or the whole guild is missing it returns None,
\* raises nothing and leaves the cache as it was, without an entry for g.
C17_RemoveExactlyOne ==
    [][ev'.op = "invite_delete" =>
        IF Cached(cache, ev'.g, ev'.code) # NoneOf
        THEN /\ ev'.ret = Cached(cache, ev'.g, ev'.code)
             /\ \A g \in Guilds : g \in DOMAIN cache' <=> g \in DOMAIN cache
             /\ \A g \in Guilds, code \in Codes :
                    Cached(cache', g, code) =
                        IF g = ev'.g /\ code = ev'.code THEN NoneOf
                        ELSE Cached(cache, g, code)
        ELSE /\ ev'.ret = NoneOf
             /\ cache' = cache]_vars

\* C17 witness: a cached invite was removed and returned while the guild
\* keeps its other code and the other guild keeps an invite of the same
\* code.
C17_Witness ==
    /\ ev.op = "invite_delete"
    /\ ev.ret # NoneOf
    /\ Cached(cache, ev.g, ev.code) = NoneOf
    /\ \E code \in Codes \ {ev.code} : Cached(cache, ev.g, code) # NoneOf
    /\ \E g \in Guilds \ {ev.g} : Cached(cache, g, ev.code) # NoneOf

\* C18: after InviteCache.add_invite(g, S), for a guild with or without
\* cache entry, get(g)[S.code] is S; and get writes nothing: a member join
\* that reads the cache through get and matches no invite leaves the cache
\* as it was, a guild without entry staying without.
C18_RoundTrip ==
    /\ [][ev'.op = "invite_create" =>
            LET invites == get(cache', ev'.g)
            IN  /\ invites.ret # NoneOf
                /\ ev'.invite.code \in DOMAIN invites.ret[1]
                /\ invites.ret[1][ev'.invite.code] = ev'.invite
                /\ invites.cache = cache']_vars
    /\ [][(ev'.op = "member_join" /\ ev'.fetched.ok /\ ev'.res = NoneOf) =>
            cache' = cache]_vars

\* C18 witness: the invite was added to a guild that had no cache entry
\* (add_invite initialized the guild's dict) and is read back.
C18_Witness ==
    /\ ev.op = "invite_create"
    /\ ev.initialized
    /\ get(cache, ev.g).ret = Some(DictSet(EmptyDict, ev.invite.code, ev.invite))

\* C19: once a cached invite X of guild g has been deleted and created
\* again with use count 0, the cached count of X is 0 whatever it was
\* before the deletion, and the member join that follows is attributed to X
\* exactly when the live list shows X with a use count above 0 (and no
\* invite before X in the list shows an increase too).
C19_RecreateResetsBaseline ==
    /\ [](recreate.stage = 2 =>
              Cached(cache, recreate.g, recreate.code) = Some(Invite(recreate.code, 0)))
    /\ [][(ev'.op = "member_join" /\ recreate'.stage = 3 /\ ev'.fetched.ok) =>
            LET live == ev'.fetched.invites
                hits == Increased(cache, ev'.g, live)
                pos == {k \in 1..Len(live) : live[k].code = recreate'.code}
            IN  /\ \A k \in pos : k \in hits <=> live[k].uses > 0
                /\ (ev'.res # NoneOf /\ ev'.res[1].code = recreate'.code)
                       <=> \E k \in pos : /\ live[k].uses > 0
                                          /\ \A j \in hits : k <= j]_vars

\* C19 witness: the invite was cached with use count 2, deleted, created
\* again with 0, and the join that followed, with live use count 1, was
\* attributed to it.
C19_Witness ==
    /\ recreate.stage = 3
    /\ recreate.old = 2
    /\ ev.op = "member_join"
    /\ ev.res = Some(Invite(recreate.code, 1))

\* C20: get_guild_invites never serves a list older than the last
\* successful load of the guild: when a look-up has returned a list, the live
\* invites of the guild have changed since and the sweep loads the new list, a
\* look-up made next (the platform still giving the loaded list) returns
\* the loaded list and not the list of the first look-up.
C20_LookupNotStale ==
    [][(/\ ev'.op = "load" /\ ev'.fetched.ok
        /\ ev'.g \in DOMAIN memo
        /\ memo[ev'.g] # NoneOf
        /\ memo[ev'.g] # Some(ev'.fetched.invites)) =>
        LET second == get_guild_invites(memo', ev'.g, ev'.fetched)
        IN  /\ second.ret = Some(ev'.fetched.invites)
            /\ second.ret # memo[ev'.g]]_vars

\* C21: get_inviter(m, g) returns the inviter id of the join record that
\* member m has in guild g at the time of the call, and None when there is
\* no such record or the record has no inviter, whatever was asked
\* before; a missing record raises nothing.
C21_InviterOfCurrentRecord ==
    [][ev'.op = "get_inviter" =>
        LET row == user_invited_first(user_invited, ev'.m, ev'.g)
        IN  /\ row = NoneOf => (ev'.ret = None /\ ev'.exc = None)
            /\ (row # NoneOf /\ ev'.exc = None) => ev'.ret = row[1].inviter_id]_vars

\* C22: get_invited_members(u, g) returns exactly the members whose join
\* record in guild g names u as inviter at the time of the call (an empty
\* list when there are none): no member of another guild, no member whose
\* record a leave has deleted, and every member recorded since the call
\* before.
C22_MembersOfCurrentRecords ==
    [][(ev'.op = "get_invited_members" /\ ev'.exc = None) =>
        ev'.ret = Ascending({r.id : r \in {x \in Rows(user_invited) :
                                              /\ x.inviter_id = ev'.u
                                              /\ x.guild_id = ev'.g}})]_vars

\* The guilds a guild_invite row is linked to.
GuildsOf(links, r) == {g \in Guilds : <<g, r>> \in links}

\* C23: every guild_invite row is linked to one guild only, the guild it
\* was created for, and no event links an existing row to a further guild:
\* on_invite_create for guild g2 with a code that has a row of guild g1
\* does not attach that row to g2.
C23_OneGuildPerInvite ==
    /\ [](\A r \in DOMAIN invite_tbl : Cardinality(GuildsOf(guild_invites, r)) <= 1)
    /\ [][\A r \in DOMAIN invite_tbl :
              GuildsOf(guild_invites', r) \subseteq GuildsOf(guild_invites, r)]_vars

\* The use count of the invite `code` in a list of invites (0 when the
\* list has no such invite).
UsesIn(invites, code) ==
    IF \E k \in 1..Len(invites) : invites[k].code = code
    THEN (CHOOSE i \in {invites[k] : k \in 1..Len(invites)} : i.code = code).uses
    ELSE 0

\* The join records of JoinGuild that name the invite `code`.
Attributed(code) ==
    {r \in Rows(user_invited) : r.guild_id = JoinGuild /\ r.invite_code = code}

\* C24: whatever the interleaving of the on_member_join handlers of one
\* guild, each suspended only at its fetch of the live invites, and with
\* no reload, invite create or invite delete in between, the number of
\* joins attributed to an invite never exceeds the rise of the invite's
\* real use count since the cache was seeded; and two handlers that
\* fetched the same list never both attribute the same single use.
C24_NoDoubleAttribution ==
    /\ \A code \in Codes :
           IF seeded = NoneOf \/ code \notin DOMAIN seeded[1]
           THEN Attributed(code) = {}
           ELSE Cardinality(Attributed(code))
                    <= UsesIn(platform, code) - seeded[1][code].uses
    /\ \A m1 \in DOMAIN joining, m2 \in DOMAIN joining, code \in Codes :
           (/\ m1 # m2
            /\ joining[m1].at = "done" /\ joining[m2].at = "done"
            /\ joining[m1].fetched = joining[m2].fetched
            /\ seeded # NoneOf /\ code \in DOMAIN seeded[1]
            /\ UsesIn(joining[m1].fetched.invites, code) = seeded[1][code].uses + 1)
           => ~(/\ m1 \in DOMAIN user_invited /\ user_invited[m1].invite_code = code
                /\ m2 \in DOMAIN user_invited /\ user_invited[m2].invite_code = code)

\* C24 witness: the cache was seeded with A:0; members 1 and 2 both
\* fetched [A:1] and both handlers ran to their end: one of them has the
\* join record of A, the other has none.
C24_Witness ==
    /\ seeded = Some(DictOfInvites(<<Invite("A", 0)>>))
    /\ {1, 2} \subseteq DOMAIN joining
    /\ joining[1] = [at |-> "done", fetched |-> Fetched(<<Invite("A", 1)>>)]
    /\ joining[2] = joining[1]
    /\ Cardinality(Attributed("A")) = 1
    /\ DOMAIN user_invited \cap {1, 2} # {1, 2}
    /\ ev = Idle

\* C25: an invite that stays in the cache of the guild (no invite delete,
\* invite create, reload or guild removal) never has its cached use count
\* lowered by a step, whatever the order in which the on_member_join
\* handlers resume: a handler resuming with a list fetched before another
\* handler's update does not write its lower count over the higher one.
C25_CachedUsesNeverDecrease ==
    [][\A code \in Codes :
          Cached(cache, JoinGuild, code) # NoneOf =>
              /\ Cached(cache', JoinGuild, code) # NoneOf
              /\ Cached(cache', JoinGuild, code)[1].uses
                     >= Cached(cache, JoinGuild, code)[1].uses]_vars

\* C25 witness: a handler that fetched [A:1] has resumed when the cache
\* already held A:2 from a later join: it found no invite and the cache
\* still holds A:2.
C25_Witness ==
    /\ ev.op = "member_join"
    /\ ev.fetched = Fetched(<<Invite("A", 1)>>)
    /\ ev.res = NoneOf
    /\ ev.exc = None
    /\ Cached(cache, JoinGuild, "A") = Some(Invite("A", 2))
    /\ \E m \in DOMAIN joining :
           joining[m] = [at |-> "done", fetched |-> Fetched(<<Invite("A", 2)>>)]

\* The outcomes of n successive calls of _get_invite_for_member for one
\* guild with the same fetched list, the first one on the cache c.
RECURSIVE successive_calls(_, _, _, _)
successive_calls(c, guild_id, fetched, n) ==
    IF n = 0 THEN <<>>
    ELSE LET r == get_invite_for_member(c, guild_id, fetched)
         IN  <<r>> \o successive_calls(r.cache, guild_id, fetched, n - 1)

\* C26: when a join handler resolves the used invite for a guild with a
\* cache entry and k cached invites of the guild show a higher use count
\* in its live list, this call and the calls that follow it with the same
\* list return those k invites one by one, in the order of the list; the
\* (k+1)-th call returns None, leaves the cache as it is, and the cache
\* then holds the live invite for each of the k codes.
C26_TiesAttributedLater ==
    [][(ev'.op = "member_join" /\ ev'.fetched.ok /\ ev'.g \in DOMAIN cache) =>
        LET live == ev'.fetched.invites
            hits == Increased(cache, ev'.g, live)
            k == Cardinality(hits)
            order == Ascending(hits)
            calls == successive_calls(cache, ev'.g, ev'.fetched, k + 1)
        IN  /\ ev'.res = calls[1].invite
            /\ cache' = calls[1].cache
            /\ \A n \in 1..k : calls[n].invite = Some(live[order[n]])
            /\ Cardinality({calls[n].invite : n \in 1..k}) = k
            /\ calls[k + 1].invite = NoneOf
            /\ calls[k + 1].exc = None
            /\ k >= 1 => calls[k + 1].cache = calls[k].cache
            /\ \A j \in hits :
                   Cached(calls[k + 1].cache, ev'.g, live[j].code) = Some(live[j])]_vars

\* C26 witness: the cache was seeded with A:0 and B:0 and three handlers
\* fetched [A:1, B:1]; all three have run: one join is recorded for A, one
\* for B, the third call returned None, and the cache holds A:1 and B:1.
C26_Witness ==
    /\ seeded = Some(DictOfInvites(<<Invite("A", 0), Invite("B", 0)>>))
    /\ ev.op = "member_join"
    /\ ev.fetched = Fetched(<<Invite("A", 1), Invite("B", 1)>>)
    /\ ev.res = NoneOf
    /\ ev.exc = None
    /\ DOMAIN joining = Joiners
    /\ \A m \in Joiners : joining[m] = [at |-> "done", fetched |-> ev.fetched]
    /\ Cardinality(Attributed("A")) = 1
    /\ Cardinality(Attributed("B")) = 1
    /\ cache[JoinGuild] = DictOfInvites(<<Invite("A", 1), Invite("B", 1)>>)

\* C27: join records are kept per guild: when a member who has a join
\* record in one guild joins another guild through a tracked invite, the
\* join raises nothing, the record of the first guild stays as it is, and
\* a record of the member for the second guild is there afterwards.
C27_RecordsPerGuild ==
    [][(/\ ev'.op = "member_join"
        /\ ev'.res # NoneOf
        /\ \E r \in Rows(user_invited) : r.id = ev'.m /\ r.guild_id # ev'.g) =>
        /\ ev'.exc = None
        /\ Rows(user_invited) \subseteq Rows(user_invited')
        /\ Record(ev'.m, ev'.g, ev'.res[1]) \in Rows(user_invited')]_vars

\* C28: the cache holds no entry for a guild the bot has left: once
\* on_guild_remove has dropped the guild's entry, an on_invite_create or
\* on_invite_delete of that guild arriving before the next on_guild_join
\* of the guild leaves the guild without a cache entry.
C28_LeftGuildStaysAbsent ==
    [][(/\ ev'.op \in {"invite_create", "invite_delete"}
        /\ ev'.g \in left) =>
        /\ ev'.g \notin DOMAIN cache'
        /\ get(cache', ev'.g).ret = NoneOf]_vars

====
